---- MODULE Spec2Model ----
(***************************************************************************)
(* Task lifecycle of the CAD conversion service: the Redis task store, the *)
(* API-side task manager (create / update / requeue / next-task), the      *)
(* atomic claim script, the dramatiq actor and the polling worker.         *)
(***************************************************************************)
EXTENDS Integers, Sequences, FiniteSets, TLC

\* ---------------------------------------------------------------- bounds
MaxTasks == 2          \* task ids the store is watched for
MaxRedeliver == 1      \* messages the broker re-enqueues after a raise
RequeueCap == 4        \* requeue_task calls explored per task

\* ------------------------------------------------------ program constants
MAX_RETRIES == 3

TaskIds == 1 .. MaxTasks

\* TASK_STATUS values
QUEUED == "QUEUED"
PENDING == "PENDING"
PROCESSING == "PROCESSING"
COMPLETED == "COMPLETED"
FAILED == "FAILED"
TIMEOUT == "TIMEOUT"
TASK_STATUS == {QUEUED, PENDING, PROCESSING, COMPLETED, FAILED, TIMEOUT}

\* the status process_task reports after a successful upload
FINISH == "FINISH"

\* error texts the workers report
ErrProcess == "FAILED: <exception text>"
ErrTimeout == "FAILED because timeout"
ErrUnexpected == "<exception type>: <exception text>"

\* worker processes: dramatiq actors (one claims through Redis directly, one
\* through the API) and the polling worker running worker_loop
DrWorkers == {"d1", "d2"}
PollWorkers == {"p1"}
Workers == DrWorkers \cup PollWorkers
DEPLOYMENT == [w \in DrWorkers |-> IF w = "d1" THEN "CLOUD" ELSE "REMOTE"]

NoCount == -1
NoTask == [present |-> FALSE, created |-> FALSE, status |-> "", result_url |-> "",
           error |-> "", retry_count |-> 0, ttl |-> FALSE]
NoUpdate == [status |-> "", result_url |-> "", error |-> "", retry_count |-> NoCount]
Returned(fn, val) == [fn |-> fn, val |-> val]
ApiIdle == [op |-> "idle", stage |-> "idle", task |-> 0, data |-> NoUpdate,
            was |-> "", caller |-> "", next |-> ""]

VARIABLES
    counter,     \* TASK_COUNTER_KEY
    store,       \* the task:<id> hashes
    queue,       \* TASK_QUEUE_KEY, head of the sequence is the left end
    broker,      \* dramatiq messages waiting, per task
    retries,     \* messages re-enqueued so far
    pc,          \* each worker's position
    job,         \* the task a worker is handling
    claimed,     \* what claim_task returned to the actor: "", "true" or "false"
    fired,       \* the time limit has interrupted this message's handler
    fault,       \* the failure that occurred while handling
    converted,   \* calls of ConverterManager.convert made while handling
    sent,        \* status updates the worker issued while handling
    api,         \* the API process: the task-manager call in progress
    ret,         \* what the last task-manager call returned
    won,         \* workers whose claim returned true since the task was last queued
    clock,       \* the time time.time() returns and the store measures lifetimes by
    db,          \* the task:<id> hashes with their timestamps and expiry, by task id
    calls,       \* the task-manager call each caller is in, with its locals
    returned,    \* the task ids create_task has returned, in order
    registry,    \* ConverterManager.registry: the converter keys, in loading order
    route,       \* the last find_conversion_path / convert call and its result
    scratch,     \* the files in TMP_DIR each worker's handler has made and not removed
    updated      \* what the worker-side update_task_status last returned to each worker

vars == <<counter, store, queue, broker, retries, pc, job, claimed, fired, fault,
          converted, sent, api, ret, won, clock, db, calls, returned, registry, route,
          scratch, updated>>

\* the variables of the workers, of the timed task manager and of the router
worker_vars == <<store, broker, retries, pc, job, claimed, fired, fault, converted,
                 sent, api, ret, won, scratch, updated>>
manager_vars == <<clock, db, calls, returned>>
router_vars == <<registry, route>>
beside_handlers == <<manager_vars, router_vars>>
handler_vars == <<scratch, updated>>
beside_workers == <<beside_handlers, handler_vars>>

\* ------------------------------------------------------- Redis commands
EXISTS(s, t) == s[t].present

\* HSET key mapping: writes the given fields, creates the key when it is missing,
\* leaves the key's time-to-live as it is
HSET(s, t, d) ==
    [s EXCEPT ![t] = [@ EXCEPT
        !.present = TRUE,
        !.status = IF d.status # "" THEN d.status ELSE @,
        !.result_url = IF d.result_url # "" THEN d.result_url ELSE @,
        !.error = IF d.error # "" THEN d.error ELSE @,
        !.retry_count = IF d.retry_count # NoCount THEN d.retry_count ELSE @]]

\* ------------------------------------------------------- the claim script
\* the script without its HSET: it answers 1 and leaves the status QUEUED
CLAIM_TASK_SCRIPT_NoWrite(s, t) ==
    IF s[t].present /\ s[t].status = QUEUED
    THEN [result |-> 1, store |-> s]
    ELSE [result |-> 0, store |-> s]

\* the script with its HSET outside the IF: it writes PROCESSING whatever it found
CLAIM_TASK_SCRIPT_AlwaysWrite(s, t) ==
    [result |-> IF s[t].present /\ s[t].status = QUEUED THEN 1 ELSE 0,
     store |-> [s EXCEPT ![t].present = TRUE, ![t].status = PROCESSING]]

\* HGET of a missing key is nil, which is not 'QUEUED'
CLAIM_TASK_SCRIPT(s, t) ==
    IF s[t].present /\ s[t].status = QUEUED
    THEN [result |-> 1, store |-> [s EXCEPT ![t].status = PROCESSING]]
    ELSE [result |-> 0, store |-> s]

claim_task_with_lua(s, t) ==
    LET r == CLAIM_TASK_SCRIPT(s, t) IN [ok |-> r.result = 1, store |-> r.store]

\* GET /worker/claim/{task_id}
get_task_api(s, t) ==
    LET c == claim_task_with_lua(s, t)
    IN  [status_code |-> IF ~c.ok THEN 400 ELSE 200, store |-> c.store]

claim_task(w, s, t) ==
    IF DEPLOYMENT[w] = "CLOUD"
    THEN claim_task_with_lua(s, t)
    ELSE LET res == get_task_api(s, t)
         IN  [ok |-> res.status_code = 200, store |-> res.store]

\* ------------------------------------------------- task manager (API side)
NewTask == [present |-> TRUE, created |-> TRUE, status |-> QUEUED, result_url |-> "",
            error |-> "", retry_count |-> 0, ttl |-> TRUE]

\* update_task_status without its existence check
update_task_status_exists_Skipped(s, t) == TRUE

\* update_task_status, first half: the existence check
update_task_status_exists(s, t) == EXISTS(s, t)

\* update_task_status, second half: the write of status and the extra fields
update_task_status_write(s, t, d) == HSET(s, t, d)

\* POST /worker/update-task/{task_id}: only a non-empty result_url or error is passed on
update_task_api(status, result_url, error) ==
    [status |-> status, result_url |-> result_url, error |-> error,
     retry_count |-> NoCount]

WorkersInit ==
    /\ counter = 0
    /\ store = [t \in TaskIds |-> NoTask]
    /\ queue = << >>
    /\ broker = [t \in TaskIds |-> 0]
    /\ retries = 0
    /\ pc = [w \in Workers |-> "idle"]
    /\ job = [w \in Workers |-> 0]
    /\ claimed = [w \in Workers |-> ""]
    /\ fired = [w \in Workers |-> FALSE]
    /\ fault = [w \in Workers |-> FALSE]
    /\ converted = [w \in Workers |-> 0]
    /\ sent = [w \in Workers |-> {}]
    /\ api = ApiIdle
    /\ ret = Returned("", "")
    /\ won = [t \in TaskIds |-> {}]
    /\ scratch = [w \in Workers |-> {}]
    /\ updated = [w \in Workers |-> ""]

\* POST /convert: create_task, then dramatiq_send_convert.send
create_task ==
    /\ api = ApiIdle
    /\ counter < MaxTasks
    /\ counter' = counter + 1
    /\ store' = [store EXCEPT ![counter + 1] = NewTask]
    /\ broker' = [broker EXCEPT ![counter + 1] = 1]
    /\ UNCHANGED <<queue, retries, pc, job, claimed, fired, fault, converted, sent,
                   api, ret, won>>

\* the store drops a record whose lifetime has elapsed
Expire(t) ==
    /\ store[t].present /\ store[t].ttl
    /\ store' = [store EXCEPT ![t] = NoTask]
    /\ UNCHANGED <<counter, queue, broker, retries, pc, job, claimed, fired, fault,
                   converted, sent, api, ret, won>>

\* requeue_task: get_task_status, then the task data is built from the record
requeue_task(t) ==
    /\ api = ApiIdle
    /\ store[t].retry_count < RequeueCap
    /\ IF ~EXISTS(store, t)
       THEN ret' = Returned("requeue_task", "False") /\ UNCHANGED api
       ELSE IF ~store[t].created
       THEN ret' = Returned("requeue_task", "KeyError") /\ UNCHANGED api
       ELSE /\ api' = [ApiIdle EXCEPT !.op = "requeue", !.stage = "check", !.task = t,
                          !.was = store[t].status,
                          !.data = [NoUpdate EXCEPT !.status = QUEUED,
                                       !.retry_count = store[t].retry_count + 1]]
            /\ UNCHANGED ret
    /\ UNCHANGED <<counter, store, queue, broker, retries, pc, job, claimed, fired,
                   fault, converted, sent, won>>

\* requeue_task's call of update_task_status: the existence check; its result is ignored
requeue_check ==
    /\ api.op = "requeue" /\ api.stage = "check"
    /\ IF update_task_status_exists(store, api.task)
       THEN api' = [api EXCEPT !.stage = "write"] /\ UNCHANGED ret
       ELSE /\ api' = [api EXCEPT !.stage = "push"]
            /\ ret' = Returned("update_task_status", "False")
    /\ UNCHANGED <<counter, store, queue, broker, retries, pc, job, claimed, fired,
                   fault, converted, sent, won>>

\* requeue_task: lpush of the task data, return True
requeue_push ==
    /\ api.op = "requeue" /\ api.stage = "push"
    /\ queue' = <<api.task>> \o queue
    /\ ret' = Returned("requeue_task", "True")
    /\ api' = ApiIdle
    /\ UNCHANGED <<counter, store, broker, retries, pc, job, claimed, fired, fault,
                   converted, sent, won>>

\* the write half of update_task_status, for whichever caller is in progress
update_task_status ==
    /\ api.stage = "write"
    /\ store' = update_task_status_write(store, api.task, api.data)
    /\ won' = IF api.data.status = QUEUED THEN [won EXCEPT ![api.task] = {}] ELSE won
    /\ ret' = Returned("update_task_status", "True")
    /\ IF api.op = "requeue"
       THEN api' = [api EXCEPT !.stage = "push"] /\ UNCHANGED pc
       ELSE /\ api' = ApiIdle
            /\ pc' = IF pc[api.caller] = "await"
                     THEN [pc EXCEPT ![api.caller] = api.next] ELSE pc
    /\ UNCHANGED <<counter, queue, broker, retries, job, claimed, fired, fault,
                   converted, sent>>

\* ------------------------------------------------------------- workers
\* a worker's update_task_status: POST /worker/update-task, answered when
\* the API has run update_task_status; the worker goes on at `next`
post_update(w, d, next) ==
    /\ api = ApiIdle
    /\ sent' = [sent EXCEPT ![w] = @ \cup {d}]
    /\ IF update_task_status_exists(store, job[w])
       THEN /\ api' = [ApiIdle EXCEPT !.op = "update", !.stage = "write",
                          !.task = job[w], !.data = d, !.caller = w, !.next = next]
            /\ pc' = [pc EXCEPT ![w] = "await"]
            /\ UNCHANGED ret
       ELSE /\ ret' = Returned("update_task_status", "False")
            /\ pc' = [pc EXCEPT ![w] = next]
            /\ UNCHANGED api

\* where the actor goes after claim_task: a failed claim returns at once
after_claim(ok) == IF ok THEN "start" ELSE "ret"

\* the broker hands a waiting message to an idle actor, which runs
\* dramatiq_send_convert up to its try block
dramatiq_send_convert(w, t) ==
    /\ w \in DrWorkers /\ pc[w] = "idle" /\ broker[t] > 0
    /\ DEPLOYMENT[w] = "REMOTE" => api = ApiIdle
    /\ broker' = [broker EXCEPT ![t] = @ - 1]
    /\ job' = [job EXCEPT ![w] = t]
    /\ LET c == claim_task(w, store, t)
       IN  /\ store' = c.store
           /\ claimed' = [claimed EXCEPT ![w] = IF c.ok THEN "true" ELSE "false"]
           /\ pc' = [pc EXCEPT ![w] = after_claim(c.ok)]
           /\ won' = IF c.ok THEN [won EXCEPT ![t] = @ \cup {w}] ELSE won
    /\ UNCHANGED <<counter, queue, retries, fired, fault, converted, sent, api, ret>>

\* process_task up to the first status update: the statements before the try
\* block ("unexpected": an exception there leaves process_task), 1. download_file,
\* 2. ConverterManager().convert ("raise": line 120 or the call itself raises,
\* "convert": it returns failure) and the check that the output file exists,
\* 3. upload_file_to_r2
Outcomes == {"ok", "unexpected", "download", "convert", "raise", "output", "upload"}

\* the calls of convert an outcome stands for: none when process_task fails before
\* line 121, none or one when line 120 or line 121 raises, one otherwise
convert_calls(r) ==
    CASE r \in {"unexpected", "download"} -> {0}
      [] r = "raise" -> {0, 1}
      [] OTHER -> {1}

process_task_run(w) ==
    /\ pc[w] = "start"
    /\ \E r \in Outcomes :
         /\ pc' = [pc EXCEPT ![w] =
                     CASE r = "ok" -> "report"
                       [] r = "unexpected" -> IF w \in DrWorkers THEN "dr_except" ELSE "ret"
                       [] OTHER -> "except"]
         /\ fault' = [fault EXCEPT ![w] = r # "ok"]
         /\ \E n \in convert_calls(r) : converted' = [converted EXCEPT ![w] = n]
    /\ UNCHANGED <<counter, store, queue, broker, retries, job, claimed, fired, sent,
                   api, ret, won>>

\* 4. the update after a successful upload
process_task_report(w) ==
    /\ pc[w] = "report"
    /\ post_update(w, update_task_api(FINISH, "r2_url", ""), "finally")
    /\ UNCHANGED <<counter, store, queue, broker, retries, job, claimed, fired, fault,
                   converted, won>>

\* an except block that logs the error and reports nothing
process_task_except_Silent(w) ==
    /\ pc[w] = "except"
    /\ pc' = [pc EXCEPT ![w] = "finally"]
    /\ UNCHANGED <<counter, store, queue, broker, retries, job, claimed, fired, fault,
                   converted, sent, api, ret, won>>

\* the except block of process_task
process_task_except(w) ==
    /\ pc[w] = "except"
    /\ post_update(w, update_task_api(FAILED, "", ErrProcess), "finally")
    /\ UNCHANGED <<counter, store, queue, broker, retries, job, claimed, fired, fault,
                   converted, won>>

\* the finally block of process_task; an interrupt on its way out goes on to the actor
process_task_finally(w) ==
    /\ pc[w] = "finally"
    /\ pc' = [pc EXCEPT ![w] = IF fired[w] THEN "dr_timeout" ELSE "ret"]
    /\ UNCHANGED <<counter, store, queue, broker, retries, job, claimed, fired, fault,
                   converted, sent, api, ret, won>>

\* the actor's time limit: TimeLimitExceeded is raised in the handler's thread, once,
\* wherever the handler is: before the actor's try block (it leaves the actor), in
\* process_task before or inside its try block, or in the actor's except block
TimeLimitExceeded(w) ==
    /\ w \in DrWorkers /\ ~fired[w]
    /\ pc[w] \in {"start", "report", "except", "await", "finally", "dr_except"}
    /\ fired' = [fired EXCEPT ![w] = TRUE]
    /\ \E to \in {"raised", "dr_timeout", "finally"} :
         /\ CASE pc[w] = "dr_except" -> to = "raised"
              [] pc[w] = "start" -> TRUE
              [] pc[w] \in {"report", "except"} -> to = "finally"
              [] pc[w] = "finally" -> to = "dr_timeout"
              [] pc[w] = "await" -> to = api.next
         /\ pc' = [pc EXCEPT ![w] = to]
    /\ UNCHANGED <<counter, store, queue, broker, retries, job, claimed, fault,
                   converted, sent, api, ret, won>>

\* except TimeLimitExceeded
dramatiq_send_convert_timeout(w) ==
    /\ pc[w] = "dr_timeout"
    /\ post_update(w, update_task_api(FAILED, "", ErrTimeout), "ret")
    /\ UNCHANGED <<counter, store, queue, broker, retries, job, claimed, fired, fault,
                   converted, won>>

\* except Exception: report, then raise
dramatiq_send_convert_except(w) ==
    /\ pc[w] = "dr_except"
    /\ post_update(w, update_task_api(FAILED, "", ErrUnexpected), "raised")
    /\ UNCHANGED <<counter, store, queue, broker, retries, job, claimed, fired, fault,
                   converted, won>>

\* the handler is over: the worker waits for its next message or poll
Idle(w) ==
    /\ pc' = [pc EXCEPT ![w] = "idle"]
    /\ job' = [job EXCEPT ![w] = 0]
    /\ claimed' = [claimed EXCEPT ![w] = ""]
    /\ fired' = [fired EXCEPT ![w] = FALSE]
    /\ fault' = [fault EXCEPT ![w] = FALSE]
    /\ converted' = [converted EXCEPT ![w] = 0]
    /\ sent' = [sent EXCEPT ![w] = {}]

\* the handler raised: the broker re-enqueues the message while retries are left
redeliver(w) ==
    /\ pc[w] = "raised"
    /\ Idle(w)
    /\ IF retries < MaxRedeliver
       THEN /\ broker' = [broker EXCEPT ![job[w]] = @ + 1]
            /\ retries' = retries + 1
       ELSE UNCHANGED <<broker, retries>>
    /\ UNCHANGED <<counter, store, queue, api, ret, won>>

\* a loop that goes round only after a task that did not fail
return_AfterSuccess(w) ==
    /\ pc[w] = "ret" /\ ~fault[w]
    /\ Idle(w)
    /\ UNCHANGED <<counter, store, queue, broker, retries, api, ret, won>>

\* the handler returned: the message is acknowledged; worker_loop goes round
return(w) ==
    /\ pc[w] = "ret"
    /\ Idle(w)
    /\ UNCHANGED <<counter, store, queue, broker, retries, api, ret, won>>

\* worker_loop: GET /worker/next-task; get_next_task pops the queue and sets the
\* task PROCESSING, then process_task is called
get_next_task(w) ==
    /\ w \in PollWorkers /\ pc[w] = "idle"
    /\ api = ApiIdle
    /\ queue # << >>
    /\ LET t == queue[Len(queue)]
       IN  /\ queue' = SubSeq(queue, 1, Len(queue) - 1)
           /\ job' = [job EXCEPT ![w] = t]
           /\ IF update_task_status_exists(store, t)
              THEN /\ api' = [ApiIdle EXCEPT !.op = "next", !.stage = "write",
                                 !.task = t, !.caller = w, !.next = "start",
                                 !.data = [NoUpdate EXCEPT !.status = PROCESSING]]
                   /\ pc' = [pc EXCEPT ![w] = "await"]
                   /\ UNCHANGED ret
              ELSE /\ ret' = Returned("update_task_status", "False")
                   /\ pc' = [pc EXCEPT ![w] = "start"]
                   /\ UNCHANGED api
    /\ UNCHANGED <<counter, store, broker, retries, claimed, fired, fault, converted,
                   sent, won>>

\* ------------------------------------------- the task manager, with time
\* Callers run create_task, update_task_status and requeue_task concurrently, one
\* Redis command at a time, while the clock advances and records expire.
ClockStep == 150       \* seconds the clock advances at a time
MaxClock == 300        \* the clock is followed up to this time
MaxCreates == 2        \* create_task calls explored
MaxRequeues == 2       \* requeue_task calls explored
MaxCount == 2          \* largest max_count get_queued_tasks is called with

\* redis_client.expire(f"task:{task_id}", 300)
LIFETIME == 300

Callers == {"c1", "c2"}
Uuids == {"1b9d6bcd", "6ec0bd7f"}
Inputs == {[input_file |-> "https://r2/a.stl", output_format |-> "step"],
           [input_file |-> "https://r2/b.step", output_format |-> "stl"]}

\* a field the hash does not hold
Absent == "<absent>"
NoId == [time |-> NoCount, number |-> 0, random |-> ""]
NoHash == [status |-> Absent, input_file |-> Absent, output_format |-> Absent,
           created_at |-> NoCount, updated_at |-> NoCount, result_url |-> Absent,
           error |-> Absent, retry_count |-> NoCount, expire_at |-> NoCount]
NoCall == [op |-> "idle", pc |-> "idle", id |-> NoId, input_file |-> "",
           output_format |-> "", created_at |-> NoCount, updated_at |-> NoCount,
           status |-> "", retry_count |-> NoCount,
           max_count |-> 0, keys |-> << >>, tasks |-> << >>]

\* time.time()
time_time == clock

\* a counter that is read and not incremented
INCR_ReadOnly(n) == n

\* INCR: the counter's new value, in one atomic command
INCR(n) == n + 1

exists(d, id) == id \in DOMAIN d

\* HSET key mapping on the timed store: the given fields are written over the hash;
\* a missing key is created with those fields only and no time-to-live
hset(d, id, f) ==
    LET old == IF id \in DOMAIN d THEN d[id] ELSE NoHash
    IN  [i \in DOMAIN d \cup {id} |->
            IF i = id
            THEN [k \in DOMAIN old |-> IF k \in DOMAIN f THEN f[k] ELSE old[k]]
            ELSE d[i]]

\* EXPIRE key seconds: no effect on a missing key
expire(d, id, seconds) ==
    IF id \in DOMAIN d
    THEN [d EXCEPT ![id].expire_at = time_time + seconds]
    ELSE d

\* time passes; the store drops the keys whose time-to-live has run out
Tick ==
    /\ clock + ClockStep <= MaxClock
    /\ clock' = clock + ClockStep
    /\ db' = [i \in {j \in DOMAIN db : db[j].expire_at = NoCount
                                        \/ db[j].expire_at > clock + ClockStep}
                |-> db[i]]
    /\ UNCHANGED <<counter, queue, calls, returned, worker_vars, router_vars>>

\* create_task: generate_task_id
generate_task_id(c) ==
    /\ calls[c].op = "idle"
    /\ counter < MaxCreates /\ Len(returned) < MaxCreates
    /\ counter' = INCR(counter)
    /\ \E u \in Uuids, in \in Inputs :
         calls' = [calls EXCEPT ![c] =
                     [NoCall EXCEPT !.op = "create_task", !.pc = "created_at",
                         !.id = [time |-> time_time, number |-> INCR(counter),
                                 random |-> u],
                         !.input_file = in.input_file,
                         !.output_format = in.output_format]]
    /\ UNCHANGED <<queue, clock, db, returned, worker_vars, router_vars>>

\* create_task: created_at=time.time()
create_task_created_at(c) ==
    /\ calls[c].op = "create_task" /\ calls[c].pc = "created_at"
    /\ calls' = [calls EXCEPT ![c].created_at = time_time, ![c].pc = "updated_at"]
    /\ UNCHANGED <<counter, queue, clock, db, returned, worker_vars, router_vars>>

\* create_task: updated_at=time.time(), then hset of the model's fields
create_task_hset(c) ==
    /\ calls[c].op = "create_task" /\ calls[c].pc = "updated_at"
    /\ db' = hset(db, calls[c].id,
                  [status |-> QUEUED, input_file |-> calls[c].input_file,
                   output_format |-> calls[c].output_format,
                   created_at |-> calls[c].created_at, updated_at |-> time_time,
                   result_url |-> "", error |-> ""])
    /\ calls' = [calls EXCEPT ![c].updated_at = time_time, ![c].pc = "expire"]
    /\ UNCHANGED <<counter, queue, clock, returned, worker_vars, router_vars>>

\* create_task: expire, then return of the task id
create_task_expire(c) ==
    /\ calls[c].op = "create_task" /\ calls[c].pc = "expire"
    /\ db' = expire(db, calls[c].id, LIFETIME)
    /\ returned' = Append(returned, calls[c].id)
    /\ calls' = [calls EXCEPT ![c] = NoCall]
    /\ UNCHANGED <<counter, queue, clock, worker_vars, router_vars>>

\* the task ids a caller can name: those create_task has returned
KnownIds == {returned[i] : i \in 1 .. Len(returned)}
UpdateStatuses == {FAILED}

\* update_task_status(task_id, status): the existence check
update_exists(c, id, st) ==
    /\ calls[c].op = "idle"
    /\ calls' = [calls EXCEPT ![c] =
                   IF exists(db, id)
                   THEN [NoCall EXCEPT !.op = "update_task_status", !.pc = "hset",
                                       !.id = id, !.status = st]
                   ELSE NoCall]
    /\ UNCHANGED <<counter, queue, clock, db, returned, worker_vars, router_vars>>

\* update_task_status: hset of status, updated_at and the additional fields; return True
update_hset(c) ==
    /\ calls[c].op \in {"update_task_status", "requeue_task"} /\ calls[c].pc = "hset"
    /\ db' = hset(db, calls[c].id,
                  IF calls[c].retry_count = NoCount
                  THEN [status |-> calls[c].status, updated_at |-> time_time]
                  ELSE [status |-> calls[c].status, updated_at |-> time_time,
                        retry_count |-> calls[c].retry_count])
    /\ calls' = [calls EXCEPT ![c] =
                   IF calls[c].op = "requeue_task" THEN [@ EXCEPT !.pc = "lpush"]
                   ELSE NoCall]
    /\ UNCHANGED <<counter, queue, clock, returned, worker_vars, router_vars>>

\* int(task_info.get("retry_count", 0))
retry_count_of(h) == IF h.retry_count = NoCount THEN 0 ELSE h.retry_count

\* requeue_task: get_task_status; False when there is no record, KeyError when the
\* record holds no input_file; otherwise the new retry_count is computed
requeue_get_task_status(c, id) ==
    /\ calls[c].op = "idle"
    /\ Len(queue) < MaxRequeues
    /\ calls' = [calls EXCEPT ![c] =
                   IF ~exists(db, id) \/ db[id].input_file = Absent
                   THEN NoCall
                   ELSE [NoCall EXCEPT !.op = "requeue_task", !.pc = "exists",
                                       !.id = id, !.status = QUEUED,
                                       !.retry_count = retry_count_of(db[id]) + 1]]
    /\ UNCHANGED <<counter, queue, clock, db, returned, worker_vars, router_vars>>

\* requeue_task's update_task_status: the existence check; its result is not looked at
requeue_update_exists(c) ==
    /\ calls[c].op = "requeue_task" /\ calls[c].pc = "exists"
    /\ calls' = [calls EXCEPT ![c].pc = IF exists(db, calls[c].id) THEN "hset"
                                        ELSE "lpush"]
    /\ UNCHANGED <<counter, queue, clock, db, returned, worker_vars, router_vars>>

\* requeue_task: lpush, return True
requeue_lpush(c) ==
    /\ calls[c].op = "requeue_task" /\ calls[c].pc = "lpush"
    /\ queue' = <<calls[c].id>> \o queue
    /\ calls' = [calls EXCEPT ![c] = NoCall]
    /\ UNCHANGED <<counter, clock, db, returned, worker_vars, router_vars>>

\* the orders in which KEYS can return the keys of the store
keys(d) ==
    {k \in [1 .. Cardinality(DOMAIN d) -> DOMAIN d] :
        \A i, j \in 1 .. Cardinality(DOMAIN d) : i # j => k[i] # k[j]}

\* task_data.get(field, default)
get(task_data, field, default) ==
    IF task_data[field] = Absent THEN default ELSE task_data[field]

\* float(task_data.get(field, 0))
float_get(task_data, field) ==
    IF task_data[field] = NoCount THEN 0 ELSE task_data[field]

\* the task information get_queued_tasks builds from a hash
task_info(id, task_data) ==
    [task_id |-> id,
     status |-> get(task_data, "status", "unknown"),
     input_file |-> get(task_data, "input_file", ""),
     output_format |-> get(task_data, "output_format", ""),
     created_at |-> float_get(task_data, "created_at"),
     updated_at |-> float_get(task_data, "updated_at"),
     result_url |-> get(task_data, "result_url", ""),
     error |-> get(task_data, "error", "")]

\* get_queued_tasks(max_count): redis_client.keys("task:*")
get_queued_keys(c, max_count) ==
    /\ calls[c].op = "idle"
    /\ \E k \in keys(db) :
         calls' = [calls EXCEPT ![c] =
                     [NoCall EXCEPT !.op = "get_queued_tasks",
                         !.pc = IF k = << >> THEN "return" ELSE "hgetall",
                         !.max_count = max_count, !.keys = k]]
    /\ UNCHANGED <<counter, queue, clock, db, returned, worker_vars, router_vars>>

\* get_queued_tasks: one round of the loop: hgetall of the next key; a hash whose
\* status is QUEUED is appended, and the loop ends once max_count tasks are held
get_queued_hgetall(c) ==
    /\ calls[c].op = "get_queued_tasks" /\ calls[c].pc = "hgetall"
    /\ LET task_key == Head(calls[c].keys)
           rest == Tail(calls[c].keys)
           queued == exists(db, task_key) /\ db[task_key].status = QUEUED
           queued_tasks == IF queued
                           THEN Append(calls[c].tasks, task_info(task_key, db[task_key]))
                           ELSE calls[c].tasks
       IN  calls' = [calls EXCEPT ![c].tasks = queued_tasks, ![c].keys = rest,
                        ![c].pc = IF \/ queued /\ Len(queued_tasks) >= calls[c].max_count
                                     \/ rest = << >>
                                  THEN "return" ELSE "hgetall"]
    /\ UNCHANGED <<counter, queue, clock, db, returned, worker_vars, router_vars>>

\* get_queued_tasks: return queued_tasks
get_queued_return(c) ==
    /\ calls[c].op = "get_queued_tasks" /\ calls[c].pc = "return"
    /\ calls' = [calls EXCEPT ![c] = NoCall]
    /\ UNCHANGED <<counter, queue, clock, db, returned, worker_vars, router_vars>>

ManagerInit ==
    /\ clock = 0
    /\ db = << >>
    /\ calls = [c \in Callers |-> NoCall]
    /\ returned = << >>

\* create_task under concurrent callers
CreateNext ==
    \/ Tick
    \/ \E c \in Callers : generate_task_id(c)
    \/ \E c \in Callers : create_task_created_at(c)
    \/ \E c \in Callers : create_task_hset(c)
    \/ \E c \in Callers : create_task_expire(c)

\* one task is followed through updates, requeues and its expiry
first_task(c) == counter = 0 /\ generate_task_id(c)

ManagerNext ==
    \/ Tick
    \/ \E c \in Callers : first_task(c)
    \/ \E c \in Callers : create_task_created_at(c)
    \/ \E c \in Callers : create_task_hset(c)
    \/ \E c \in Callers : create_task_expire(c)
    \/ \E c \in Callers, id \in KnownIds, st \in UpdateStatuses : update_exists(c, id, st)
    \/ \E c \in Callers : update_hset(c)
    \/ \E c \in Callers, id \in KnownIds : requeue_get_task_status(c, id)
    \/ \E c \in Callers : requeue_update_exists(c)
    \/ \E c \in Callers : requeue_lpush(c)

\* tasks are created and updated by one caller while another lists the queued ones
ListNext ==
    \/ Tick
    \/ generate_task_id("c1")
    \/ create_task_created_at("c1")
    \/ create_task_hset("c1")
    \/ create_task_expire("c1")
    \/ \E id \in KnownIds, st \in UpdateStatuses : update_exists("c1", id, st)
    \/ update_hset("c1")
    \/ \E m \in 0 .. MaxCount : get_queued_keys("c2", m)
    \/ get_queued_hgetall("c2")
    \/ get_queued_return("c2")

\* ------------------------------------------------------------ the router
\* ConverterManager: the registry of converters, find_conversion_path and convert.
MaxConverters == 3     \* converters a registry holds
MaxHops == 2           \* largest max_steps find_conversion_path is called with

\* def find_conversion_path(self, input_fmt, output_fmt, max_steps=3)
DEFAULT_MAX_STEPS == 3

\* formats converters are registered for, and their order as Python strings
Formats == {"a", "b", "step", "stp"}
Rank == [f \in Formats |-> CASE f = "a" -> 1 [] f = "b" -> 2 [] f = "step" -> 3
                             [] f = "stp" -> 4]

\* format names a caller passes, and str.lower() on them
FormatNames == Formats \cup {"STEP"}
lower(n) == IF n = "STEP" THEN "step" ELSE n

\* the registry key f"{input_fmt}_to_{output_fmt}"
key(input_fmt, output_fmt) == <<input_fmt, output_fmt>>
\* a converter turns one format into another one
Keys == {key(x, y) : x, y \in Formats} \ {key(x, x) : x \in Formats}

\* four converters that give two two-step routes from x to y, through m and through n
TwoRoutes ==
    UNION {{r \in [1 .. 4 -> {key(q[1], q[3]), key(q[3], q[2]),
                              key(q[1], q[4]), key(q[4], q[2])}] :
                \A i, j \in 1 .. 4 : i # j => r[i] # r[j]}
              : q \in {f \in [1 .. 4 -> Formats] :
                          \A i, j \in 1 .. 4 : i # j => f[i] # f[j]}}

\* a converter whose input and output format are the same, alone or with another one
SameFormat ==
    {<<key(x, x)>> : x \in Formats}
        \cup {<<key(x, x), k>> : x \in Formats, k \in Keys}
        \cup {<<k, key(x, x)>> : x \in Formats, k \in Keys}

\* registries: the keys of the loaded converters, all different, in loading order:
\* every one of up to MaxConverters converters, and those of TwoRoutes and SameFormat
Registries ==
    UNION {{r \in [1 .. n -> Keys] : \A i, j \in 1 .. n : i # j => r[i] # r[j]}
              : n \in 0 .. MaxConverters}
        \cup TwoRoutes \cup SameFormat

registered(reg, k) == \E i \in 1 .. Len(reg) : reg[i] = k

\* every edge weighs the same
weight_Unit(input_fmt, output_fmt) == 2

\* edge weights in halves: 1 stands for the code's 0.5, 2 for its 1
weight(input_fmt, output_fmt) ==
    IF \/ (input_fmt \in {"step", "stp"} /\ output_fmt \in {"step", "stp"})
       \/ (input_fmt \in {"iges", "igs"} /\ output_fmt \in {"iges", "igs"})
    THEN 1 ELSE 2

\* _build_format_graph: for each source format its (target, key, weight) edges, in
\* the order the registry is iterated
RECURSIVE edges_from(_, _, _)
edges_from(reg, f, i) ==
    IF i > Len(reg) THEN << >>
    ELSE IF reg[i][1] = f
         THEN <<[to |-> reg[i][2], key |-> reg[i],
                 weight |-> weight(reg[i][1], reg[i][2])]>> \o edges_from(reg, f, i + 1)
         ELSE edges_from(reg, f, i + 1)
\* a graph that was never built from the registry
_build_format_graph_Empty(reg) == [f \in Formats |-> << >>]
_build_format_graph(reg) == [f \in Formats |-> edges_from(reg, f, 1)]

\* a pop that takes the largest (cost, format) tuple
heappop_Largest(pq) ==
    CHOOSE e \in pq : \A o \in pq :
        \/ e[1] > o[1]
        \/ e[1] = o[1] /\ Rank[e[2]] >= Rank[o[2]]

\* heapq.heappop: the smallest (cost, format) tuple
heappop(pq) ==
    CHOOSE e \in pq : \A o \in pq :
        \/ e[1] < o[1]
        \/ e[1] = o[1] /\ Rank[e[2]] <= Rank[o[2]]

\* the for loop over the edges of `current`
RECURSIVE relax(_, _, _, _, _)
relax(edges, i, cost, current, st) ==
    IF i > Len(edges) THEN st
    ELSE LET e == edges[i]
             new_cost == cost + e.weight
         IN  IF e.to \notin DOMAIN st.dist \/ new_cost < st.dist[e.to]
             THEN relax(edges, i + 1, cost, current,
                        [pq |-> st.pq \cup {<<new_cost, e.to>>},
                         dist |-> [x \in DOMAIN st.dist \cup {e.to} |->
                                      IF x = e.to THEN new_cost ELSE st.dist[x]],
                         prev |-> [x \in DOMAIN st.prev \cup {e.to} |->
                                      IF x = e.to THEN <<current, e.key>>
                                      ELSE st.prev[x]]])
             ELSE relax(edges, i + 1, cost, current, st)

\* the while loop: pop, stop at the target, skip a node whose cost has reached
\* max_steps, otherwise relax its edges
RECURSIVE dijkstra(_, _, _, _)
dijkstra(graph, output_fmt, max_steps, st) ==
    IF st.pq = {} THEN st.prev
    ELSE LET top == heappop(st.pq)
             rest == [st EXCEPT !.pq = @ \ {top}]
         IN  IF top[2] = output_fmt THEN st.prev
             ELSE IF top[1] >= 2 * max_steps
                  THEN dijkstra(graph, output_fmt, max_steps, rest)
                  ELSE dijkstra(graph, output_fmt, max_steps,
                                relax(graph[top[2]], 1, top[1], top[2], rest))

\* the path is rebuilt from the target back to the source
RECURSIVE rebuild(_, _, _)
rebuild(prev, input_fmt, current) ==
    IF current = input_fmt THEN << >>
    ELSE rebuild(prev, input_fmt, prev[current][1])
            \o <<[src |-> prev[current][1], dst |-> current, key |-> prev[current][2]]>>

\* find_conversion_path without path.reverse(): the steps run from the target back
find_conversion_path_Unreversed(reg, input_name, output_name, max_steps) ==
    LET input_fmt == lower(input_name)
        output_fmt == lower(output_name)
        direct_key == key(input_fmt, output_fmt)
        prev == dijkstra(_build_format_graph(reg), output_fmt, max_steps,
                         [pq |-> {<<0, input_fmt>>},
                          dist |-> [x \in {input_fmt} |-> 0],
                          prev |-> << >>])
        path == IF output_fmt \notin DOMAIN prev THEN << >>
                ELSE rebuild(prev, input_fmt, output_fmt)
    IN  IF input_fmt = output_fmt THEN << >>
        ELSE IF registered(reg, direct_key)
        THEN <<[src |-> input_fmt, dst |-> output_fmt, key |-> direct_key]>>
        ELSE [i \in 1 .. Len(path) |-> path[Len(path) + 1 - i]]

\* find_conversion_path without its test for equal formats
find_conversion_path_NoIdentity(reg, input_name, output_name, max_steps) ==
    LET input_fmt == lower(input_name)
        output_fmt == lower(output_name)
        direct_key == key(input_fmt, output_fmt)
        prev == dijkstra(_build_format_graph(reg), output_fmt, max_steps,
                         [pq |-> {<<0, input_fmt>>},
                          dist |-> [x \in {input_fmt} |-> 0],
                          prev |-> << >>])
    IN  IF registered(reg, direct_key)
        THEN <<[src |-> input_fmt, dst |-> output_fmt, key |-> direct_key]>>
        ELSE IF output_fmt \notin DOMAIN prev THEN << >>
        ELSE rebuild(prev, input_fmt, output_fmt)

\* find_conversion_path without its direct-converter shortcut
find_conversion_path_SearchOnly(reg, input_name, output_name, max_steps) ==
    LET input_fmt == lower(input_name)
        output_fmt == lower(output_name)
        prev == dijkstra(_build_format_graph(reg), output_fmt, max_steps,
                         [pq |-> {<<0, input_fmt>>},
                          dist |-> [x \in {input_fmt} |-> 0],
                          prev |-> << >>])
    IN  IF input_fmt = output_fmt THEN << >>
        ELSE IF output_fmt \notin DOMAIN prev THEN << >>
        ELSE rebuild(prev, input_fmt, output_fmt)

find_conversion_path(reg, input_name, output_name, max_steps) ==
    LET input_fmt == lower(input_name)
        output_fmt == lower(output_name)
        direct_key == key(input_fmt, output_fmt)
        prev == dijkstra(_build_format_graph(reg), output_fmt, max_steps,
                         [pq |-> {<<0, input_fmt>>},
                          dist |-> [x \in {input_fmt} |-> 0],
                          prev |-> << >>])
    IN  IF input_fmt = output_fmt THEN << >>
        ELSE IF registered(reg, direct_key)
        THEN <<[src |-> input_fmt, dst |-> output_fmt, key |-> direct_key]>>
        ELSE IF output_fmt \notin DOMAIN prev THEN << >>
        ELSE rebuild(prev, input_fmt, output_fmt)

\* an argument that was not passed
None == "None"

\* the text of a result: the path of the output on success, otherwise the message, of
\* which the step number (0: the message has none) and the two formats are kept
Msg(what, step, src, dst) == [what |-> what, step |-> step, src |-> src, dst |-> dst]
NoMsg == Msg("", 0, "", "")

\* names tempfile.NamedTemporaryFile hands out, all different
TempName == <<"tmp1", "tmp2", "tmp3", "tmp4">>

\* what a call has done: the converters invoked with their input and output files, the
\* temporary files allocated, those of them still on disk, and whether the input
\* was copied to the output
NoRun == [invoked |-> << >>, temp_files |-> << >>, disk |-> {}, copied |-> FALSE]

\* what a call comes to: a returned (success, text) pair or an exception that leaves it
Return(ok, text, run) == [kind |-> "return", ok |-> ok, text |-> text, run |-> run]
Raise(run) == [kind |-> "raise", ok |-> FALSE, text |-> NoMsg, run |-> run]

\* how the converters of a path behave: all succeed, or the first one that does
\* not succeed returns failure or raises
Behaviours(path) ==
    {[at |-> 0, how |-> "ok"]}
        \cup {[at |-> k, how |-> h] : k \in 1 .. Len(path), h \in {"fail", "raise"}}

\* every converter is told to write the caller's output file
invoke_ToOutput(path, i, input, output, run) ==
    [run EXCEPT !.invoked = Append(@, [key |-> path[i].key, input |-> input,
                                       output |-> "output_path"])]

\* converter.convert(input, output) for step i of the path
invoke(path, i, input, output, run) ==
    [run EXCEPT !.invoked = Append(@, [key |-> path[i].key, input |-> input,
                                       output |-> output])]

\* the one converter of a one-step path, run on the caller's files
single_step(path, b, run) ==
    LET ran == invoke(path, 1, "input_path", "output_path", run)
    IN  IF b.at = 1 /\ b.how = "raise" THEN Raise(ran)
        ELSE IF b.at = 1 /\ b.how = "fail"
        THEN Return(FALSE, Msg("convert_failed", 0, path[1].src, path[1].dst), ran)
        ELSE Return(TRUE, Msg("result_path", 0, "", ""), ran)

\* the last converter of a multi-step path writes the caller's output
last_step(path, b, current_input, run) ==
    LET n == Len(path)
        ran == invoke(path, n, current_input, "output_path", run)
    IN  IF b.at = n /\ b.how = "raise" THEN Raise(ran)
        ELSE IF b.at = n /\ b.how = "fail"
        THEN Return(FALSE, Msg("last_step_failed", 0, path[n].src, path[n].dst), ran)
        ELSE Return(TRUE, Msg("result_path", 0, "", ""), ran)

\* the loop over path[:-1]: a temporary file is made for each step's output and is
\* the next step's input; a step that fails ends the call
RECURSIVE all_but_last(_, _, _, _, _)
all_but_last(path, i, b, current_input, run) ==
    IF i >= Len(path) THEN last_step(path, b, current_input, run)
    ELSE LET temp_path == TempName[i]
             made == [run EXCEPT !.temp_files = Append(@, temp_path),
                                 !.disk = @ \cup {temp_path}]
             ran == invoke(path, i, current_input, temp_path, made)
         IN  IF b.at = i /\ b.how = "raise" THEN Raise(ran)
             ELSE IF b.at = i /\ b.how = "fail"
             THEN Return(FALSE, Msg("step_failed", i, path[i].src, path[i].dst), ran)
             ELSE all_but_last(path, i + 1, b, temp_path, ran)

\* the finally block without its loop: nothing is removed
cleanup_Skipped(res) == res

\* the finally block: every temporary file that exists is removed
cleanup(res) ==
    [res EXCEPT !.run.disk = @ \ {res.run.temp_files[i] : i \in 1 .. Len(res.run.temp_files)}]

\* the path convert_with_path works with: the one passed, or the one it finds when
\* none was passed and both formats were
path_used(reg, conversion_path, input_fmt, output_fmt) ==
    IF conversion_path = << >> /\ input_fmt # None /\ output_fmt # None
    THEN find_conversion_path(reg, input_fmt, output_fmt, DEFAULT_MAX_STEPS)
    ELSE conversion_path

\* convert_with_path(input_path, output_path, conversion_path, input_fmt, output_fmt):
\* no path is an error result; one step is run directly, more steps are run through
\* temporary files
convert_with_path(reg, conversion_path, input_fmt, output_fmt, b) ==
    LET path == path_used(reg, conversion_path, input_fmt, output_fmt)
    IN  IF path = << >>
        THEN Return(FALSE, Msg("no_path", 0, input_fmt, output_fmt), NoRun)
        ELSE IF Len(path) = 1 THEN single_step(path, b, NoRun)
        ELSE cleanup(all_but_last(path, 1, b, "input_path", NoRun))

\* shutil.copy2 of convert's same-format branch: done, or an exception that is caught
copy2(b) ==
    IF b.how = "ok"
    THEN Return(TRUE, Msg("result_path", 0, "", ""), [NoRun EXCEPT !.copied = TRUE])
    ELSE Return(FALSE, Msg("copy_failed", 0, "", ""), NoRun)

NoRoute == [op |-> "idle", input_fmt |-> "", output_fmt |-> "", max_steps |-> 0,
            path |-> << >>, behaviour |-> [at |-> 0, how |-> "ok"],
            result |-> Return(FALSE, NoMsg, NoRun)]

\* a call of find_conversion_path
find_path(input_name, output_name, max_steps) ==
    /\ route = NoRoute
    /\ route' = [NoRoute EXCEPT !.op = "find_conversion_path",
                    !.input_fmt = input_name, !.output_fmt = output_name,
                    !.max_steps = max_steps,
                    !.path = find_conversion_path(registry, input_name, output_name,
                                                  max_steps)]
    /\ UNCHANGED <<registry, counter, queue, worker_vars, manager_vars>>

\* a call of convert: equal formats are a file copy; otherwise find_conversion_path
\* with the default max_steps, then convert_with_path with the path and no formats
convert(input_name, output_name) ==
    /\ route = NoRoute
    /\ LET input_fmt == lower(input_name)
           output_fmt == lower(output_name)
           path == find_conversion_path(registry, input_fmt, output_fmt,
                                        DEFAULT_MAX_STEPS)
       IN  IF input_fmt = output_fmt
           THEN \E b \in {[at |-> 0, how |-> "ok"], [at |-> 0, how |-> "raise"]} :
                   route' = [NoRoute EXCEPT !.op = "convert",
                                !.input_fmt = input_name, !.output_fmt = output_name,
                                !.max_steps = DEFAULT_MAX_STEPS, !.behaviour = b,
                                !.result = copy2(b)]
           ELSE \E b \in Behaviours(path) :
                   route' = [NoRoute EXCEPT !.op = "convert",
                                !.input_fmt = input_name, !.output_fmt = output_name,
                                !.max_steps = DEFAULT_MAX_STEPS, !.path = path,
                                !.behaviour = b,
                                !.result = convert_with_path(registry, path, None, None, b)]
    /\ UNCHANGED <<registry, counter, queue, worker_vars, manager_vars>>

\* a call of convert_with_path with a path find_conversion_path returned for the two
\* formats, which may be the empty one
execute(input_name, output_name) ==
    /\ route = NoRoute
    /\ LET path == find_conversion_path(registry, input_name, output_name,
                                        DEFAULT_MAX_STEPS)
       IN  \E b \in Behaviours(path) :
              route' = [NoRoute EXCEPT !.op = "convert_with_path",
                           !.input_fmt = input_name, !.output_fmt = output_name,
                           !.max_steps = DEFAULT_MAX_STEPS, !.path = path,
                           !.behaviour = b,
                           !.result = convert_with_path(registry, path, None, None, b)]
    /\ UNCHANGED <<registry, counter, queue, worker_vars, manager_vars>>

\* the caller takes what the call gave back
route_taken ==
    /\ route # NoRoute
    /\ route' = NoRoute
    /\ UNCHANGED <<registry, counter, queue, worker_vars, manager_vars>>

RouterIdle ==
    /\ registry = << >>
    /\ route = NoRoute

\* the router with any registry of up to MaxConverters converters
RouterInit ==
    /\ WorkersInit /\ ManagerInit
    /\ registry \in Registries
    /\ route = NoRoute

RouterNext ==
    \/ \E x \in FormatNames, y \in FormatNames, m \in 0 .. MaxHops : find_path(x, y, m)
    \/ \E x \in FormatNames, y \in FormatNames : convert(x, y)
    \/ \E x \in Formats, y \in Formats : execute(x, y)
    \/ route_taken

Init == WorkersInit /\ ManagerInit /\ RouterIdle

\* one task is followed through the workers
submit == counter = 0 /\ create_task

Next ==
    \/ submit /\ UNCHANGED beside_workers
    \/ \E t \in TaskIds : Expire(t) /\ UNCHANGED beside_workers
    \/ \E t \in TaskIds : requeue_task(t) /\ UNCHANGED beside_workers
    \/ requeue_check /\ UNCHANGED beside_workers
    \/ requeue_push /\ UNCHANGED beside_workers
    \/ update_task_status /\ UNCHANGED beside_workers
    \/ \E w \in Workers, t \in TaskIds : dramatiq_send_convert(w, t) /\ UNCHANGED beside_workers
    \/ \E w \in Workers : process_task_run(w) /\ UNCHANGED beside_workers
    \/ \E w \in Workers : process_task_report(w) /\ UNCHANGED beside_workers
    \/ \E w \in Workers : process_task_except(w) /\ UNCHANGED beside_workers
    \/ \E w \in Workers : process_task_finally(w) /\ UNCHANGED beside_workers
    \/ \E w \in Workers : TimeLimitExceeded(w) /\ UNCHANGED beside_workers
    \/ \E w \in Workers : dramatiq_send_convert_timeout(w) /\ UNCHANGED beside_workers
    \/ \E w \in Workers : dramatiq_send_convert_except(w) /\ UNCHANGED beside_workers
    \/ \E w \in Workers : redeliver(w) /\ UNCHANGED beside_workers
    \/ \E w \in Workers : return(w) /\ UNCHANGED beside_workers
    \/ \E w \in Workers : get_next_task(w) /\ UNCHANGED beside_workers

Spec == Init /\ [][Next]_vars

\* ------------------------------------ the handlers with their scratch files
\* process_task's two files in TMP_DIR
Files == {"input_file_path", "output_file_path"}

\* the files on disk when the try block is left: both after a successful upload;
\* none, the input file, or both when a step failed; none when process_task
\* failed before its try block
files_written(to) ==
    CASE to = "report" -> {Files}
      [] to = "except" -> {{}, {"input_file_path"}, Files}
      [] OTHER -> {{}}

\* download_file writes the input file, the converter the output file
download_and_convert(w) ==
    \E S \in files_written(pc'[w]) : scratch' = [scratch EXCEPT ![w] = S]

\* the finally block: os.remove of each of the two files that exists
remove_files(w) == scratch' = [scratch EXCEPT ![w] = {}]

\* the files an interrupt leaves: inside the try block the steps stop where they
\* are; inside the finally block the loop stops before the first os.remove,
\* between the two, or after the second; elsewhere the files stay as they are
files_left(w) ==
    CASE pc[w] = "start" /\ pc'[w] = "finally" -> {{}, {"input_file_path"}, Files}
      [] pc[w] = "finally" -> {scratch[w], scratch[w] \ {"input_file_path"}, {}}
      [] OTHER -> {scratch[w]}

interrupt_files(w) ==
    \E S \in files_left(w) : scratch' = [scratch EXCEPT ![w] = S]

\* POST /worker/update-task/{task_id}: the response for either result of the
\* task manager's update_task_status; both branches return a dictionary, which
\* is sent with status code 200
update_task_api_response(success) ==
    [status_code |-> 200, status |-> IF success THEN "success" ELSE "error"]

\* the worker-side update_task_status: response.status_code == 200
service_update_task_status(response) ==
    IF response.status_code = 200 THEN "True" ELSE "False"

\* the worker's request is answered with the result of the existence check
answer(w) ==
    updated' = [updated EXCEPT ![w] = service_update_task_status(
                    update_task_api_response(update_task_status_exists(store, job[w])))]

\* the handler is over: the next handler starts with files of its own
next_handler(w) ==
    /\ scratch' = [scratch EXCEPT ![w] = {}]
    /\ updated' = [updated EXCEPT ![w] = ""]

receive(w) == \E t \in TaskIds : dramatiq_send_convert(w, t) /\ UNCHANGED handler_vars
poll(w) == get_next_task(w) /\ UNCHANGED handler_vars
run(w) == process_task_run(w) /\ download_and_convert(w) /\ UNCHANGED updated
report(w) == process_task_report(w) /\ answer(w) /\ UNCHANGED scratch
except(w) == process_task_except(w) /\ answer(w) /\ UNCHANGED scratch
finally(w) == process_task_finally(w) /\ remove_files(w) /\ UNCHANGED updated
interrupt(w) == TimeLimitExceeded(w) /\ interrupt_files(w) /\ UNCHANGED updated
timeout(w) == dramatiq_send_convert_timeout(w) /\ answer(w) /\ UNCHANGED scratch
unexpected(w) == dramatiq_send_convert_except(w) /\ answer(w) /\ UNCHANGED scratch
raised(w) == redeliver(w) /\ next_handler(w)
returned_to(w) == return(w) /\ next_handler(w)

\* a step of the API process inside a task-manager call
api_step ==
    (requeue_check \/ requeue_push \/ update_task_status) /\ UNCHANGED handler_vars

\* worker_loop: a step of the polling worker
worker_loop(w) ==
    \/ poll(w)
    \/ run(w)
    \/ report(w)
    \/ except(w)
    \/ finally(w)
    \/ returned_to(w)

LoopNext ==
    \/ submit /\ UNCHANGED beside_workers
    \/ \E t \in TaskIds : Expire(t) /\ UNCHANGED beside_workers
    \/ \E t \in TaskIds : requeue_task(t) /\ UNCHANGED beside_workers
    \/ requeue_check /\ UNCHANGED beside_workers
    \/ requeue_push /\ UNCHANGED beside_workers
    \/ update_task_status /\ UNCHANGED beside_workers
    \/ poll("p1") /\ UNCHANGED beside_handlers
    \/ run("p1") /\ UNCHANGED beside_handlers
    \/ report("p1") /\ UNCHANGED beside_handlers
    \/ except("p1") /\ UNCHANGED beside_handlers
    \/ finally("p1") /\ UNCHANGED beside_handlers
    \/ returned_to("p1") /\ UNCHANGED beside_handlers

\* the polling worker alone, with its scratch files
LoopSpec == Init /\ [][LoopNext]_vars

\* the worker and the API process keep running: a step of theirs that stays
\* possible is taken. Nothing forces a request or an expiry.
FairLoopSpec ==
    /\ LoopSpec
    /\ WF_vars(api_step /\ UNCHANGED beside_handlers)
    /\ WF_vars(worker_loop("p1") /\ UNCHANGED beside_handlers)

\* a step of the actor other than the interrupt
actor(w) ==
    \/ receive(w)
    \/ run(w)
    \/ report(w)
    \/ except(w)
    \/ finally(w)
    \/ timeout(w)
    \/ unexpected(w)
    \/ raised(w)
    \/ returned_to(w)

ActorNext ==
    \/ submit /\ UNCHANGED beside_workers
    \/ \E t \in TaskIds : Expire(t) /\ UNCHANGED beside_workers
    \/ \E t \in TaskIds : requeue_task(t) /\ UNCHANGED beside_workers
    \/ requeue_check /\ UNCHANGED beside_workers
    \/ requeue_push /\ UNCHANGED beside_workers
    \/ update_task_status /\ UNCHANGED beside_workers
    \/ receive("d1") /\ UNCHANGED beside_handlers
    \/ run("d1") /\ UNCHANGED beside_handlers
    \/ report("d1") /\ UNCHANGED beside_handlers
    \/ except("d1") /\ UNCHANGED beside_handlers
    \/ finally("d1") /\ UNCHANGED beside_handlers
    \/ interrupt("d1") /\ UNCHANGED beside_handlers
    \/ timeout("d1") /\ UNCHANGED beside_handlers
    \/ unexpected("d1") /\ UNCHANGED beside_handlers
    \/ raised("d1") /\ UNCHANGED beside_handlers
    \/ returned_to("d1") /\ UNCHANGED beside_handlers

\* one actor alone, with its scratch files
ActorSpec == Init /\ [][ActorNext]_vars

\* the actor and the API process keep running; nothing forces a request, an
\* expiry or the time limit
FairActorSpec ==
    /\ ActorSpec
    /\ WF_vars(api_step /\ UNCHANGED beside_handlers)
    /\ WF_vars(actor("d1") /\ UNCHANGED beside_handlers)

\* the task manager under concurrent callers and passing time
ManagerSpec == Init /\ [][ManagerNext]_vars

\* create_task alone, called concurrently
CreateSpec == Init /\ [][CreateNext]_vars

\* get_queued_tasks beside create_task and update_task_status
ListSpec == Init /\ [][ListNext]_vars

\* the router, called with every pair of formats
RouterSpec == RouterInit /\ [][RouterNext]_vars

\* ================================================================ claims

\* a record's status, "" when there is no record
StatusOf(t) == IF store[t].present THEN store[t].status ELSE ""

\* C1 (at-most-one claimant): of the claim calls made on a task since it was last
\* queued at most one returned true, and a claim call returns true exactly
\* when it finds the record QUEUED.
C1_AtMostOneClaimant ==
    /\ [](\A t \in TaskIds : Cardinality(won[t]) <= 1)
    /\ [][\A w \in DrWorkers :
            (claimed[w] = "" /\ claimed'[w] # "")
            => ((claimed'[w] = "true") <=> (StatusOf(job'[w]) = QUEUED))]_vars

\* a claim was lost on a task another worker had won
C1_Witness ==
    \E w \in DrWorkers, v \in DrWorkers :
        /\ w # v /\ claimed[w] = "false" /\ job[w] \in TaskIds
        /\ won[job[w]] = {v}

\* C2 (monotonic transitions): every change of a record's status follows an edge
\* QUEUED -> PROCESSING, PROCESSING -> COMPLETED | FAILED | TIMEOUT, FAILED -> QUEUED.
Edges == {<<QUEUED, PROCESSING>>, <<PROCESSING, COMPLETED>>, <<PROCESSING, FAILED>>,
          <<PROCESSING, TIMEOUT>>, <<FAILED, QUEUED>>}
C2_MonotonicTransitions ==
    [][\A t \in TaskIds :
         (store[t].present /\ store'[t].present /\ store'[t].status # store[t].status)
         => <<store[t].status, store'[t].status>> \in Edges]_vars

\* C3 (a failed claim has no side effects): the claim call that returns false changes
\* no record and creates none, and the worker that got false only returns: it has
\* not run process_task and has issued no status update.
C3_FailedClaimNoSideEffects ==
    /\ [](\A w \in DrWorkers :
            claimed[w] = "false" => (pc[w] = "ret" /\ sent[w] = {} /\ ~fault[w]))
    /\ [][\A w \in DrWorkers :
            (claimed[w] = "" /\ claimed'[w] = "false")
            => (store' = store /\ queue' = queue /\ api' = api)]_vars
    /\ [][\A w \in DrWorkers :
            (claimed[w] = "false" /\ pc'[w] # pc[w])
            => (pc'[w] = "idle" /\ store' = store /\ api' = api)]_vars

\* a worker got false for a task whose record has expired
C3_Witness ==
    \E w \in DrWorkers :
        claimed[w] = "false" /\ job[w] \in TaskIds /\ ~store[job[w]].present

\* C4 (success is reported as COMPLETED): a worker whose download, conversion and upload
\* all succeeded has issued an update with status COMPLETED and a non-empty result_url.
C4_SuccessReportsCompleted ==
    \A w \in DrWorkers :
        (claimed[w] = "true" /\ pc[w] = "finally" /\ ~fault[w] /\ ~fired[w])
        => \E d \in sent[w] : d.status = COMPLETED /\ d.result_url # ""

C6_StatusDomain ==
    \A t \in TaskIds : store[t].present => store[t].status \in TASK_STATUS

\* C7 (retry ceiling): once retry_count has reached MAX_RETRIES a FAILED task is
\* not moved back to QUEUED, and retry_count never passes MAX_RETRIES.
C7_RetryCeiling ==
    [][\A t \in TaskIds :
         /\ (store[t].present /\ store[t].status = FAILED
                /\ store[t].retry_count >= MAX_RETRIES)
            => StatusOf(t)' # QUEUED
         /\ store'[t].retry_count <= MAX_RETRIES]_vars

\* C8 (only FAILED tasks are requeued): requeue_task writes QUEUED and pushes the task
\* on the work queue only when the status it read was FAILED.
C8_RequeueOnlyFailed ==
    [][(api.op = "requeue" /\ api.stage \in {"write", "push"} /\ api'.stage # api.stage)
       => api.was = FAILED]_vars

\* C9 (retries are never automatic): a FAILED record stays FAILED until requeue_task
\* writes it, and no worker starts process_task on a task whose record is FAILED.
C9_NoAutomaticRetry ==
    [][\A t \in TaskIds :
         (store[t].present /\ store[t].status = FAILED /\ store'[t].present)
         => /\ store'[t].status # FAILED => api.op = "requeue"
            /\ \A w \in Workers : (job[w] = t /\ pc'[w] = "start") => pc[w] = "start"]_vars

\* C10 (update_status on a missing record): a call of update_task_status that finds
\* no record returns False and writes nothing; one that finds the record goes on to
\* its write, which returns True with the status and the given fields in the record.
CallsUpdate(t) ==
    \/ \E w \in Workers : /\ pc[w] \in {"report", "except", "dr_timeout", "dr_except"}
                          /\ job[w] = t /\ sent'[w] # sent[w]
    \/ \E w \in PollWorkers : pc[w] = "idle" /\ pc'[w] # "idle" /\ job'[w] = t
    \/ api.op = "requeue" /\ api.stage = "check" /\ api'.stage # "check" /\ api.task = t
C10_UpdateMissingRecord ==
    [][/\ \A t \in TaskIds :
            CallsUpdate(t) =>
                IF store[t].present
                THEN api'.stage = "write" /\ api'.task = t
                ELSE /\ ret' = Returned("update_task_status", "False")
                     /\ store' = store
                     /\ api'.stage # "write"
       /\ (api.stage = "write" /\ api'.stage # "write") =>
             /\ ret' = Returned("update_task_status", "True")
             /\ store'[api.task].present
             /\ store'[api.task].status = api.data.status
             /\ api.data.result_url # "" => store'[api.task].result_url = api.data.result_url
             /\ api.data.error # "" => store'[api.task].error = api.data.error
             /\ api.data.retry_count # NoCount
                    => store'[api.task].retry_count = api.data.retry_count]_vars

\* update_task_status has returned False for a worker's report on an expired record
C10_Witness ==
    /\ ret = Returned("update_task_status", "False")
    /\ \E w \in Workers : job[w] \in TaskIds /\ ~store[job[w]].present /\ sent[w] # {}

\* C11 (an exceeded deadline is recorded as TIMEOUT): a handler the time limit
\* interrupted after a successful claim has, by the time it ends, issued an update
\* whose status is TIMEOUT.
C11_DeadlineRecordedTimeout ==
    \A w \in DrWorkers :
        (claimed[w] = "true" /\ fired[w] /\ pc[w] \in {"ret", "raised"})
        => \E d \in sent[w] : d.status = TIMEOUT

\* C16 (outcome fields match the status): result_url is non-empty only in a COMPLETED
\* record, error only in a FAILED or TIMEOUT record.
C16_OutcomeFieldsMatchStatus ==
    \A t \in TaskIds :
        store[t].present =>
            /\ store[t].result_url # "" => store[t].status = COMPLETED
            /\ store[t].error # "" => store[t].status \in {FAILED, TIMEOUT}

\* C17 (the router is invoked exactly once per claimed task): a handler that ends after
\* a successful claim has called convert once, and a handler whose claim failed has
\* not called it.
C17_RouterInvokedOnce ==
    \A w \in DrWorkers :
        /\ (claimed[w] = "true" /\ pc[w] \in {"ret", "raised"}) => converted[w] = 1
        /\ claimed[w] = "false" => converted[w] = 0

\* C12 (task ids are unique): no two create_task calls have returned the same id.
C12_TaskIdsUnique ==
    \A i, j \in 1 .. Len(returned) : i # j => returned[i] # returned[j]

\* two ids made in the same second with the same random part
C12_Witness ==
    /\ Len(returned) = 2
    /\ returned[1].time = returned[2].time
    /\ returned[1].random = returned[2].random

\* C13 (the record create_task leaves): when create_task returns an id, the record of
\* that id exists with status QUEUED, the given input_file and output_format,
\* created_at equal to updated_at, empty result_url and error and a time-to-live,
\* and the returning step changes no other record.
C13_CreateTaskRecord ==
    [][\A c \in Callers :
         (calls[c].op = "create_task" /\ calls'[c].op = "idle") =>
            LET id == calls[c].id
            IN  /\ id \in DOMAIN db'
                /\ db'[id].status = QUEUED
                /\ db'[id].input_file = calls[c].input_file
                /\ db'[id].output_format = calls[c].output_format
                /\ db'[id].created_at = db'[id].updated_at
                /\ db'[id].result_url = "" /\ db'[id].error = ""
                /\ db'[id].expire_at > clock
                /\ \A j \in DOMAIN db : j # id => (j \in DOMAIN db' /\ db'[j] = db[j])]_vars

\* C14 (lifetime refresh on update): a record is dropped no earlier than LIFETIME
\* after its last update, and a key that is gone comes back only by create_task.
C14_LifetimeRefresh ==
    [][/\ \A id \in DOMAIN db :
            id \notin DOMAIN db' => clock' >= db[id].updated_at + LIFETIME
       /\ \A id \in DOMAIN db' :
            id \notin DOMAIN db => \E c \in Callers : /\ calls[c].op = "create_task"
                                                       /\ calls[c].id = id]_vars

\* C15 (retry_count equals the number of requeues): with no requeue_task call in
\* progress on a task, the retry_count of its record (the one create_task wrote) is
\* the number of requeue_task calls that returned True, which is the number of
\* times the task was pushed on the queue.
Pushed(id) == Cardinality({i \in 1 .. Len(queue) : queue[i] = id})
C15_RetryCountCountsRequeues ==
    \A id \in DOMAIN db :
        (/\ db[id].input_file # Absent
         /\ \A c \in Callers : ~(calls[c].op = "requeue_task" /\ calls[c].id = id))
        => retry_count_of(db[id]) = Pushed(id)

\* the formats reachable from f in at most k registered conversions
RECURSIVE Within(_, _, _)
Within(reg, f, k) ==
    IF k <= 0 THEN {f}
    ELSE LET near == Within(reg, f, k - 1)
         IN  near \cup {y \in Formats : \E x \in near : registered(reg, key(x, y))}

\* C18 (direct-edge preference): when a converter is registered for the two formats
\* asked for, find_conversion_path returns exactly that one step, whatever max_steps.
C18_DirectEdgePreference ==
    (/\ route.op = "find_conversion_path"
     /\ lower(route.input_fmt) # lower(route.output_fmt)
     /\ registered(registry, key(lower(route.input_fmt), lower(route.output_fmt))))
    => route.path = <<[src |-> lower(route.input_fmt), dst |-> lower(route.output_fmt),
                       key |-> key(lower(route.input_fmt), lower(route.output_fmt))]>>

\* the direct step was returned although max_steps was 0 and a two-step path through
\* an alias edge led to the same format
C18_Witness ==
    /\ route.op = "find_conversion_path" /\ route.max_steps = 0
    /\ route.input_fmt = "STEP" /\ route.output_fmt = "b"
    /\ registered(registry, key("step", "b"))
    /\ registered(registry, key("step", "stp")) /\ registered(registry, key("stp", "b"))
    /\ Len(route.path) = 1

\* C19 (hop bound): a path find_conversion_path returns has at most max_steps steps.
C19_HopBound ==
    (route.op = "find_conversion_path" /\ route.max_steps >= 1)
    => Len(route.path) <= route.max_steps

\* C20 (unreachable pair): when no path of at most max_steps conversions leads from the
\* source format to the target format, find_conversion_path returns the empty path,
\* and convert returns a failure result: it neither raises nor reports success.
C20_UnreachablePair ==
    /\ (/\ route.op = "find_conversion_path" /\ route.max_steps >= 1
        /\ lower(route.output_fmt)
              \notin Within(registry, lower(route.input_fmt), route.max_steps))
       => route.path = << >>
    /\ (/\ route.op = "convert"
        /\ lower(route.output_fmt)
              \notin Within(registry, lower(route.input_fmt), route.max_steps))
       => (route.result.kind = "return" /\ ~route.result.ok)

\* the converters of a registry, and a step of a path
Loaded(reg) == {reg[i] : i \in 1 .. Len(reg)}
Step(x, y) == [src |-> x, dst |-> y, key |-> key(x, y)]

\* C21 (multi-hop correctness): when x_to_y and y_to_z are the converters registered,
\* find_conversion_path(x, z, max_steps) with max_steps >= 2 returns exactly the two
\* steps x -> y, y -> z; and whenever some path of at most max_steps conversions leads
\* from a format to a different one, the path returned is not empty.
C21_MultiHop ==
    route.op = "find_conversion_path" =>
        /\ \A x, y, z \in Formats :
              (/\ x # y /\ y # z /\ x # z
               /\ Loaded(registry) = {key(x, y), key(y, z)}
               /\ lower(route.input_fmt) = x /\ lower(route.output_fmt) = z
               /\ route.max_steps >= 2)
              => route.path = <<Step(x, y), Step(y, z)>>
        /\ (/\ lower(route.input_fmt) # lower(route.output_fmt)
            /\ lower(route.output_fmt)
                  \in Within(registry, lower(route.input_fmt), route.max_steps))
           => route.path # << >>

\* the two-step path a -> b -> step was returned for find_conversion_path(a, STEP, 2)
C21_Witness ==
    /\ route.op = "find_conversion_path" /\ route.max_steps = 2
    /\ registry = <<key("b", "step"), key("a", "b")>>
    /\ route.input_fmt = "a" /\ route.output_fmt = "STEP"
    /\ route.path = <<Step("a", "b"), Step("b", "step")>>

\* the paths of n registered conversions from x to y that visit no format twice
Chains(reg, x, y, n) ==
    {p \in [1 .. n -> Loaded(reg)] :
        /\ p[1][1] = x /\ p[n][2] = y
        /\ \A i \in 1 .. n - 1 : p[i][2] = p[i + 1][1]
        /\ \A i, j \in 1 .. n : i # j => p[i][1] # p[j][1]
        /\ \A i \in 1 .. n : p[i][2] # x}
Alias(k) == k[1] \in {"step", "stp"} /\ k[2] \in {"step", "stp"}
HasAlias(p) == \E i \in 1 .. Len(p) : Alias(p[i])
KeysOf(path) == [i \in 1 .. Len(path) |-> path[i].key]

\* C22 (alias preference): when no converter is registered for the two formats, n is the
\* least number of steps from the one to the other (n <= max_steps), and of the paths
\* of n steps one goes over an alias edge (step <-> stp) and another over ordinary
\* edges only, find_conversion_path returns a path of n steps with the alias edge.
C22_AliasPreference ==
    LET x == lower(route.input_fmt)
        y == lower(route.output_fmt)
    IN  (route.op = "find_conversion_path" /\ x # y /\ ~registered(registry, key(x, y)))
        => \A n \in 2 .. route.max_steps :
              (/\ \A m \in 1 .. n - 1 : Chains(registry, x, y, m) = {}
               /\ \E p \in Chains(registry, x, y, n) : HasAlias(p)
               /\ \E q \in Chains(registry, x, y, n) : ~HasAlias(q))
              => (KeysOf(route.path) \in Chains(registry, x, y, n)
                  /\ HasAlias(KeysOf(route.path)))

\* step -> stp -> b was returned although step -> a -> b was loaded first
C22_Witness ==
    /\ route.op = "find_conversion_path" /\ route.max_steps = 2
    /\ registry = <<key("step", "a"), key("a", "b"), key("step", "stp"), key("stp", "b")>>
    /\ route.input_fmt = "step" /\ route.output_fmt = "b"
    /\ route.path = <<Step("step", "stp"), Step("stp", "b")>>

\* C23 (path identity law): find_conversion_path(x, x, max_steps) returns the empty path
\* for every format x, in any letter case, whatever is registered and whatever max_steps.
C23_PathIdentity ==
    (route.op = "find_conversion_path" /\ lower(route.input_fmt) = lower(route.output_fmt))
    => route.path = << >>

\* the empty path was returned for (STEP, step) with a step_to_step converter loaded
C23_Witness ==
    /\ route.op = "find_conversion_path"
    /\ route.input_fmt = "STEP" /\ route.output_fmt = "step"
    /\ registered(registry, key("step", "step"))
    /\ route.path = << >>

\* a call that ran the converters of a path
Executed == route.op \in {"convert", "convert_with_path"} /\ route.path # << >>

C25_InvocationOrder ==
    Executed =>
        LET invoked == route.result.run.invoked
            n == Len(route.path)
        IN  /\ Len(invoked) = (IF route.behaviour.at = 0 THEN n ELSE route.behaviour.at)
            /\ \A i \in 1 .. Len(invoked) :
                  /\ invoked[i].key = route.path[i].key
                  /\ invoked[i].input = (IF i = 1 THEN "input_path"
                                         ELSE invoked[i - 1].output)
                  /\ (invoked[i].output = "output_path") <=> (i = n)

\* the second of three steps returned failure: two converters were invoked, the second
\* on the first one's temporary file
C25_Witness ==
    /\ Executed /\ Len(route.path) = 3
    /\ route.behaviour = [at |-> 2, how |-> "fail"]
    /\ Len(route.result.run.invoked) = 2
    /\ route.result.run.invoked[2].input = "tmp1"

\* C26 (a step failure identifies the step): when step k of a path returns failure, the
\* result of convert_with_path carries k and the source and target format of step k.
C26_StepFailureNamesStep ==
    (Executed /\ route.behaviour.how = "fail") =>
        LET k == route.behaviour.at
        IN  /\ route.result.kind = "return" /\ ~route.result.ok
            /\ route.result.text.step = k
            /\ route.result.text.src = route.path[k].src
            /\ route.result.text.dst = route.path[k].dst

\* C27 (zero-step execution is a copy): convert_with_path called with the empty path
\* copies the input to the output and returns success.
C27_ZeroStepIsCopy ==
    (route.op = "convert_with_path" /\ route.path = << >>)
    => (route.result.kind = "return" /\ route.result.ok /\ route.result.run.copied)

\* C28 (router failures are values): convert and convert_with_path end by returning a
\* result, also when a converter raises; a call in which a step did not succeed returns
\* failure.
C28_FailuresAreValues ==
    route.op \in {"convert", "convert_with_path"} =>
        /\ route.result.kind = "return"
        /\ route.behaviour.how # "ok" => ~route.result.ok

\* C29 (a routing failure carries the formats): when convert finds no path between two
\* different formats, the failure it returns names that source and that target format.
C29_RoutingFailureNamesFormats ==
    (/\ route.op = "convert"
     /\ lower(route.input_fmt) # lower(route.output_fmt)
     /\ route.path = << >>)
    => /\ route.result.kind = "return" /\ ~route.result.ok
       /\ route.result.text.src = lower(route.input_fmt)
       /\ route.result.text.dst = lower(route.output_fmt)

\* C30 (list of queued tasks): get_queued_tasks(max_count) returns at most max_count
\* tasks, for every max_count >= 0, and every task it returns had the status QUEUED
\* when its hash was read.
C30_QueuedListBounded ==
    \A c \in Callers :
        (calls[c].op = "get_queued_tasks" /\ calls[c].pc = "return")
        => /\ Len(calls[c].tasks) <= calls[c].max_count
           /\ \A i \in 1 .. Len(calls[c].tasks) : calls[c].tasks[i].status = QUEUED

\* the total weight of a sequence of converter keys, in halves
RECURSIVE Weight(_)
Weight(p) == IF p = << >> THEN 0 ELSE weight(p[1][1], p[1][2]) + Weight(Tail(p))

\* C37 (minimum weight): when no converter is registered for the two formats and
\* find_conversion_path returns a path, no path of at most max_steps registered
\* conversions between them weighs less than the path returned.
C37_MinimumWeight ==
    LET x == lower(route.input_fmt)
        y == lower(route.output_fmt)
    IN  (/\ route.op = "find_conversion_path" /\ route.path # << >>
         /\ ~registered(registry, key(x, y)))
        => \A n \in 1 .. route.max_steps : \A p \in Chains(registry, x, y, n) :
              Weight(p) >= Weight(KeysOf(route.path))

\* a -> step -> stp (weight 1.5) was returned where a -> b -> stp (weight 2) exists
C37_Witness ==
    /\ route.op = "find_conversion_path" /\ route.max_steps = 2
    /\ route.input_fmt = "a" /\ route.output_fmt = "stp"
    /\ registered(registry, key("a", "b")) /\ registered(registry, key("b", "stp"))
    /\ KeysOf(route.path) = <<key("a", "step"), key("step", "stp")>>
    /\ Weight(KeysOf(route.path)) = 3

\* C38 (returned paths are well formed): a non-empty path find_conversion_path returns
\* starts at the source format and ends at the target format, each step starts where
\* the step before ended, each step's key is registered and is the key of the step's
\* two formats, and no format occurs twice on the path.
C38_WellFormedPath ==
    (route.op = "find_conversion_path" /\ route.path # << >>) =>
        LET path == route.path
            n == Len(path)
        IN  /\ path[1].src = lower(route.input_fmt)
            /\ path[n].dst = lower(route.output_fmt)
            /\ \A i \in 1 .. n - 1 : path[i].dst = path[i + 1].src
            /\ \A i \in 1 .. n :
                  /\ registered(registry, path[i].key)
                  /\ path[i].key = key(path[i].src, path[i].dst)
                  /\ path[i].dst # path[1].src
            /\ \A i, j \in 1 .. n : i # j => path[i].dst # path[j].dst

\* a two-step path was returned for (STEP, a) from a registry of three converters
C38_Witness ==
    /\ route.op = "find_conversion_path"
    /\ route.input_fmt = "STEP" /\ route.output_fmt = "a"
    /\ Len(registry) = 3
    /\ route.path = <<Step("step", "b"), Step("b", "a")>>

\* C31 (a task's failure does not stop the worker): whatever happens while the
\* polling worker handles a task - a failed download, conversion or upload, an
\* exception before the try block, a status update for a record that is gone -
\* the worker gets back to waiting for its next task
C31_WorkerKeepsRunning ==
    \A w \in PollWorkers : (pc[w] # "idle") ~> (pc[w] = "idle")

\* the polling worker has reported a failure of the task, the task was queued
\* again, and the same worker is processing it once more
C31_Witness ==
    /\ store[1].present /\ store[1].error = ErrProcess
    /\ job["p1"] = 1 /\ pc["p1"] = "start" /\ sent["p1"] = {}

\* C32 (scratch cleanup): when a worker's processing of a task has ended, by
\* return or by an exception leaving the handler, neither the input file nor
\* the output file it made in TMP_DIR exists any more
C32_ScratchCleanup ==
    \A w \in Workers :
        (pc[w] \in {"ret", "raised"} /\ claimed[w] # "false") => scratch[w] = {}

\* worker w is inside process_task for task t
InProcessTask(w, t) ==
    /\ job[w] = t
    /\ pc[w] \in {"start", "report", "except", "finally"}
    /\ w \in DrWorkers => claimed[w] = "true"

\* C33 (no double processing): in every reachable state at most one worker is
\* processing a given task, whichever way the workers obtained it (the claim of
\* an actor, get_next_task of the polling worker), across requeue and redelivery
C33_NoDoubleProcessing ==
    \A t \in TaskIds : Cardinality({w \in Workers : InProcessTask(w, t)}) <= 1

\* C34 (update_task_status creates no record): under every interleaving of
\* updates with expiry, every record in the store was written by create_task -
\* it holds input_file, output_format and created_at - and has a finite
\* remaining lifetime, at the latest once the create_task that wrote it has set it
C34_UpdateCreatesNoRecord ==
    \A id \in DOMAIN db :
        /\ db[id].input_file # Absent
        /\ db[id].output_format # Absent
        /\ db[id].created_at # NoCount
        /\ \/ db[id].expire_at # NoCount
           \/ \E c \in Callers : /\ calls[c].op = "create_task"
                                 /\ calls[c].pc = "expire"
                                 /\ calls[c].id = id

\* worker w has issued the success update, with the result's URL, in this handler
ReportedSuccess(w) == \E d \in sent[w] : d.result_url # ""

\* C35 (a recorded success is not overwritten): once a worker has issued the
\* success update for its task, no later update of the same handler changes the
\* task's status to FAILED - in particular not after a time-limit interrupt that
\* arrives between the success update and the handler's return
C35_SuccessNotOverwritten ==
    [][(/\ api.op = "update" /\ api.stage = "write"
        /\ api.caller \in DrWorkers
        /\ ReportedSuccess(api.caller)
        /\ store[api.task].present)
       => (store'[api.task].status = FAILED => store[api.task].status = FAILED)]_vars

\* C36 (every claimed task gets a terminal report): when the actor and the API
\* keep running, every claim that returned true is eventually followed by a
\* status update issued by the claiming worker (the success report or a FAILED
\* report), also when the time limit fires
C36_ClaimLeadsToReport ==
    \A w \in DrWorkers : (claimed[w] = "true") ~> (sent[w] # {})

\* C39 (the worker-side update reports a missing record): the worker-side
\* update_task_status returns True only when the record was updated; for a
\* record that no longer exists it returns False
C39_UpdateReportsMissingRecord ==
    [][\A w \in Workers :
          (sent'[w] # sent[w] /\ ~update_task_status_exists(store, job[w]))
              => updated'[w] = "False"]_vars
====
